---- MODULE Spec2Model ----
(***************************************************************************)
(* Model of the download orchestration core of f2.gui:                     *)
(*   DownloadController / DownloadWorker  (controllers/download_controller) *)
(*   UrlParseWorker and the TikTok proxy setup        (the same module)     *)
(*   TaskManager                          (controllers/task_manager)        *)
(*   ConfigManager                        (utils/config_manager)            *)
(*   the task cards of MainWindow         (views/main_window)               *)
(*                                                                         *)
(* Threads.  The controller lives on the GUI thread.  Every DownloadWorker *)
(* is moved to its own QThread before its signals are connected.  A worker *)
(* signal connected to a bound method of the controller is delivered       *)
(* through the GUI thread's event queue (mainq) when the worker thread     *)
(* emits it, and is delivered at once when the GUI thread itself emits it  *)
(* (DownloadWorker.pause / resume are plain method calls on the GUI        *)
(* thread).  The slot connected as a lambda (finished -> _on_finished) has *)
(* no receiver object: it is bound to the sender's thread and runs on the  *)
(* worker thread at the moment of the emit, so task_finished and           *)
(* task_completed are emitted on the worker thread and reach the           *)
(* controller's subscribers (bound methods of the main window, GUI thread) *)
(* through mainq as well.  thread.quit and the cleanup lambda of           *)
(* QThread.finished belong to the QThread object, which lives on the GUI   *)
(* thread, so both go through mainq.                                       *)
(*                                                                         *)
(* out is the outward event stream: the controller's signals in the order  *)
(* in which its subscribers on the GUI thread receive them.  The text-only *)
(* signals (task_message, task_title_changed, task_url_parsed) are left    *)
(* out of the streams.                                                     *)
(***************************************************************************)
EXTENDS Integers, Sequences, FiniteSets, TLC

\* ---------------------------------------------------------------- bounds
MaxWorkers == 2      \* start_download calls that create a worker
MaxBatches == 3      \* batches (pages) one enumeration may yield
MaxPauseResume == 2  \* pause_download / resume_download calls that reach a worker
MaxConfigResets == 1 \* ConfigManager.reset calls
MaxClock == 3        \* readings of datetime.now() by the TaskManager
MaxParseWorkers == 2 \* UrlParseWorker objects (_add_task_to_queue calls)
MaxProxyTasks == 3   \* TikTok tasks that reach _run_download
MaxHistoryAdds == 4  \* add_record calls

\* -------------------------------------------------------------- inputs
TaskIds == {"t1"}
NoId == "-"
\* (platform, mode) pairs handed to start_download: the paginated routine, a
\* single handler call, a mode the platform does not support
StartInputs == { <<"douyin", "post">>, <<"tiktok", "one">>, <<"weibo", "like">> }
\* max_counts of the config snapshot (0 = unbounded)
MaxCountsChoices == {0, 90}
\* results of one step of handler.fetch_user_post_videos: a falsy batch or the
\* length of aweme_list._to_list()
NoBatch == -1
BatchResults == {NoBatch, 0, 60}
\* results of _detect_douyin_url_type
UrlTypes == {"user", "video", "mix", "live", "unknown"}

VARIABLES
    tasks,     \* DownloadController._tasks: task id -> worker index, 0 = absent
    wk,        \* the DownloadWorker objects (with their QThread), by creation index
    mainq,     \* queued slot calls waiting in the GUI thread's event loop
    out,       \* signals of the DownloadController, as its subscribers receive them
    mainpc,    \* what the GUI thread is inside of
    startRet,  \* last return value of start_download per task id
    npr,       \* pause/resume calls that reached a worker so far
    mw,        \* MainWindow: the task cards and what was cancelled
    cm,        \* ConfigManager._config, the dicts it refers to, a task's config
    tm,        \* TaskManager._tasks and the clock its timestamps are read from
    pw,        \* the UrlParseWorker objects and what each has emitted
    px,        \* the TikTok backend module: its load state, proxies and token
    tc,        \* the DownloadTaskCard of each parsed URL and its task's position
    hm         \* HistoryManager._records and the number of add_record calls

\* the variables of the components outside the download controller
ext == <<mw, cm, tm, pw, px, tc, hm>>

\* the variables of the components outside the controller and the main window
nonwin == <<cm, tm, pw, px, tc, hm>>

vars == <<tasks, wk, mainq, out, mainpc, startRet, npr, ext>>

Workers == 1..MaxWorkers

\* DownloadWorker.__init__ (plus the thread state of its QThread).  pc is the
\* thread's position in download(); batch is the batch in hand; nbatch counts
\* the batches the backend has yielded; quit is the thread's exit request.
\* Records of what happened: stopped (stop() was called), pdl (the last pause()
\* found the worker running), pmat (batches materialized since that pause()).
NoWorker ==
    [ task_id |-> NoId, platform |-> "", mode |-> "", max_counts |-> 0,
      pc |-> "none", is_running |-> FALSE, is_paused |-> FALSE,
      video_count |-> 0, nbatch |-> 0, batch |-> 0, quit |-> FALSE,
      stopped |-> FALSE, pdl |-> FALSE, pmat |-> 0 ]

DownloadWorker(t, platform, mode, maxc) ==
    [ NoWorker EXCEPT !.task_id = t, !.platform = platform, !.mode = mode,
                      !.max_counts = maxc, !.pc = "created" ]

Idle == [op |-> "idle", id |-> NoId]

\* one signal: the worker it comes from (0 = the controller itself), the task id,
\* the signal's name, its status argument and its progress argument
Ev(w, t, sig, st, cur) ==
    [w |-> w, id |-> t, sig |-> sig, st |-> st, cur |-> cur]

NumWorkers == Cardinality({w \in Workers : wk[w].pc # "none"})

\* MainWindow.__init__: no task card yet (_task_cards = {}); cancelledIn
\* records the status a card showed when _on_task_cancel removed it
MainWindow ==
    [ cards |-> [t \in TaskIds |-> "none"],
      cancelledIn |-> [t \in TaskIds |-> "none"] ]

\* the sections of the GUI configuration a task reads (_prepare_config)
Sections == {"download", "proxy", "time_filter"}
\* what a section holds: its defaults or the user's settings
SettingValues == {"default", "user"}
\* the dict objects that can exist: one per section for the loaded config, and
\* one per section for each _get_default_config() of a reset
Objects == 1..(3 * (MaxConfigResets + 1))
NoObject == 0
SectionIndex(sec) ==
    CASE sec = "download" -> 1 [] sec = "proxy" -> 2 [] sec = "time_filter" -> 3

\* ConfigManager.__init__ / load: _config refers to one dict per section.
\* heap is the content of every dict object, config is _config (section ->
\* object), task_config is the dict of a task (section -> object), captured is
\* what the sections held when the task's config was built, read is what
\* _prepare_config got out of the task's config
ConfigManager ==
    [ heap |-> [o \in Objects |-> "default"],
      config |-> [sec \in Sections |-> SectionIndex(sec)],
      nreset |-> 0,
      task_config |-> [sec \in Sections |-> NoObject],
      captured |-> [sec \in Sections |-> "none"],
      read |-> [sec \in Sections |-> "none"] ]

\* TaskStatus (the values of the enum)
TaskStatus == {"pending", "downloading", "paused", "completed", "error", "cancelled"}
NoTask == [status |-> "absent"]
\* datetime fields: None
None == 0

\* TaskManager.__init__: an empty registry; now is the last reading of
\* datetime.now()
TaskManager == [tasks |-> [t \in TaskIds |-> NoTask], now |-> 0]

ParseWorkers == 1..MaxParseWorkers

\* UrlParseWorker.__init__ and the locals of _do_parse.  pc is the position
\* of the parse thread, emitted the finished signals sent so far, failed the
\* steps that failed in this run
NoParseWorker ==
    [ platform |-> "", pc |-> "none", parsed_url |-> "", nickname |-> "",
      user_id |-> "", emitted |-> <<>>, failed |-> {} ]

UrlParseWorker(platform) ==
    [ NoParseWorker EXCEPT !.platform = platform, !.pc = "created" ]

\* proxy settings: the proxies of the backend's own configuration file, and
\* the addresses a GUI configuration can carry
FileProxies == "file"
Proxies == {"p", "q"}
NoProxy == "none"

\* The process before any TikTok task ran: f2.utils.conf_manager is imported
\* (ConfigManager.load_config unpatched), f2.apps.tiktok.utils is not.
\* patch is the proxies the patched load_config injects; tiktok_conf,
\* token_proxies, device_proxies are the proxies bound to ClientConfManager,
\* TokenManager, DeviceIdManager; mstoken / cookie name the proxy under which
\* _MSTOKEN and the Cookie header of _DEVICE_ID_HEADERS were derived; seen is
\* the proxy of the latest backend call.  Records: override (the latest
\* proxies handed to _setup_tiktok_proxy_before_import), patch_at_load and
\* first (the patch in place and the proxies bound when the module was
\* loaded), load_task and seen_task (the task count then), inject (how the
\* proxy setup of the latest task went: "none" without a proxy setting, "ok",
\* or "failed" when an exception was caught inside it) and task (where
\* _run_download of the latest task is: "prepare" = _prepare_config,
\* "routine" = the platform routine, "failed" = an exception left it)
TiktokBackend ==
    [ ntasks |-> 0, loaded |-> FALSE, patch |-> NoProxy,
      tiktok_conf |-> NoProxy, token_proxies |-> NoProxy, device_proxies |-> NoProxy,
      mstoken |-> NoProxy, cookie |-> NoProxy, seen |-> NoProxy,
      override |-> NoProxy, patch_at_load |-> NoProxy, first |-> NoProxy,
      load_task |-> 0, seen_task |-> 0, inject |-> "none", task |-> "none" ]

\* no DownloadTaskCard yet.  pc is the position of the card's task in
\* _download_douyin_user_posts
NoCard == [ exists |-> FALSE, url |-> "", nickname |-> "", user_id |-> "", pc |-> "none" ]

\* HistoryManager.__init__ with no history file: no records
HistoryManager == [records |-> <<>>, nadds |-> 0]

Init ==
    /\ px = TiktokBackend
    /\ hm = HistoryManager
    /\ tc = [p \in ParseWorkers |-> NoCard]
    /\ cm = ConfigManager
    /\ tm = TaskManager
    /\ pw = [p \in ParseWorkers |-> NoParseWorker]
    /\ tasks = [t \in TaskIds |-> 0]
    /\ wk = [w \in Workers |-> NoWorker]
    /\ mainq = <<>>
    /\ out = <<>>
    /\ mainpc = Idle
    /\ startRet = [t \in TaskIds |-> "none"]
    /\ npr = 0
    /\ mw = MainWindow

\* ------------------------------------------------------- signal plumbing
\* slot calls that all carry the id of the first worker (variant for C13)
PostFirstId(q, w, evs) ==
    q \o [i \in 1..Len(evs) |->
            Ev(w, wk[1].task_id, evs[i][1], evs[i][2], evs[i][3])]

\* A worker signal connected to a bound method of the controller
\* (start_download, signal wiring): the worker thread's emit queues the slot
\* call on the GUI thread.
Post(q, w, evs) ==
    q \o [i \in 1..Len(evs) |->
            Ev(w, wk[w].task_id, evs[i][1], evs[i][2], evs[i][3])]

\* The controller signal each handler re-emits (_on_progress, _on_status_changed,
\* _on_user_info_changed, _on_error)
Outward(sig) ==
    CASE sig = "progress" -> "task_progress"
      [] sig = "status_changed" -> "task_status_changed"
      [] sig = "user_info_changed" -> "task_user_info_changed"
      [] sig = "error" -> "task_error"
      [] OTHER -> sig

ReEmit(e) == [e EXCEPT !.sig = Outward(e.sig)]

\* ------------------------------------------------- DownloadController API
\* a duplicate check that never finds the id (variant for C2)
IsActiveNever(t) == FALSE

\* start_download: the duplicate check `task_id in self._tasks`
IsActive(t) == tasks[t] # 0

\* start_download up to thread.start(): the worker thread may run from here on
start_download(t, platform, mode, maxc) ==
    /\ mainpc = Idle
    /\ IF IsActive(t)
          THEN /\ startRet' = [startRet EXCEPT ![t] = "false"]
               /\ UNCHANGED <<tasks, wk, mainq, out, mainpc, npr>>
          ELSE /\ NumWorkers < MaxWorkers
               /\ LET w == NumWorkers + 1 IN
                    /\ wk' = [wk EXCEPT ![w] = DownloadWorker(t, platform, mode, maxc)]
                    /\ tasks' = [tasks EXCEPT ![t] = w]
               /\ mainpc' = [op |-> "adding", id |-> t]
               /\ UNCHANGED <<mainq, out, startRet, npr>>

\* start_download after thread.start(): task_added.emit and return True
start_download_return(t) ==
    /\ mainpc = [op |-> "adding", id |-> t]
    /\ out' = Append(out, Ev(0, t, "task_added", "", 0))
    /\ startRet' = [startRet EXCEPT ![t] = "true"]
    /\ mainpc' = Idle
    /\ UNCHANGED <<tasks, wk, mainq, npr>>

\* DownloadWorker.pause, called on the GUI thread: the emit is delivered at once
pause(w) ==
    /\ wk' = [wk EXCEPT ![w].is_paused = TRUE, ![w].pdl = wk[w].is_running,
                        ![w].pmat = 0]
    /\ out' = Append(out, Ev(w, wk[w].task_id, "task_status_changed", "paused", 0))

\* DownloadWorker.resume, called on the GUI thread
resume(w) ==
    /\ wk' = [wk EXCEPT ![w].is_paused = FALSE]
    /\ out' = Append(out, Ev(w, wk[w].task_id, "task_status_changed", "downloading", 0))

\* DownloadWorker.stop
stop(w) == [wk[w] EXCEPT !.is_running = FALSE, !.is_paused = FALSE, !.stopped = TRUE]

pause_download(t) ==
    /\ mainpc = Idle
    /\ IF IsActive(t)
          THEN /\ npr < MaxPauseResume
               /\ pause(tasks[t])
               /\ npr' = npr + 1
          ELSE UNCHANGED <<wk, out, npr>>
    /\ UNCHANGED <<tasks, mainq, mainpc, startRet>>

resume_download(t) ==
    /\ mainpc = Idle
    /\ IF IsActive(t)
          THEN /\ npr < MaxPauseResume
               /\ resume(tasks[t])
               /\ npr' = npr + 1
          ELSE UNCHANGED <<wk, out, npr>>
    /\ UNCHANGED <<tasks, mainq, mainpc, startRet>>

\* QThread.isRunning of the worker's thread
ThreadRunning(w) == wk[w].pc \notin {"none", "dead"}

\* cancel_download up to thread.wait(3000): stop(), thread.quit(), then the GUI
\* thread blocks until the thread has finished or the wait times out
cancel_download(t) ==
    /\ mainpc = Idle
    /\ IF IsActive(t)
          THEN /\ wk' = [wk EXCEPT ![tasks[t]] =
                            [stop(tasks[t]) EXCEPT !.quit = @ \/ ThreadRunning(tasks[t])]]
               /\ mainpc' = [op |-> "wait", id |-> t]
          ELSE UNCHANGED <<wk, mainpc>>
    /\ UNCHANGED <<tasks, mainq, out, startRet, npr>>

\* _cleanup_task: pops whatever entry the id has now
cleanup_task(t) == [tasks EXCEPT ![t] = 0]

\* cancel_download after the wait: _cleanup_task and task_removed.emit
cancel_download_return(t) ==
    /\ mainpc = [op |-> "wait", id |-> t]
    /\ tasks' = cleanup_task(t)
    /\ out' = Append(out, Ev(0, t, "task_removed", "", 0))
    /\ mainpc' = Idle
    /\ UNCHANGED <<wk, mainq, startRet, npr>>

\* The GUI thread's event loop runs the next queued slot call:
\* _on_progress, _on_status_changed, _on_user_info_changed, _on_error re-emit;
\* a subscriber's slot receives task_finished or task_completed;
\* QThread.quit ends the worker thread's event loop; the lambda connected to
\* QThread.finished runs _cleanup_task(task_id)
Dispatch ==
    /\ mainpc = Idle
    /\ mainq # <<>>
    /\ LET e == Head(mainq) IN
         /\ mainq' = Tail(mainq)
         /\ CASE e.sig = "quit" ->
                   /\ wk' = [wk EXCEPT ![e.w].quit = TRUE]
                   /\ UNCHANGED <<tasks, out>>
              [] e.sig = "thread_finished" ->
                   /\ tasks' = cleanup_task(e.id)
                   /\ UNCHANGED <<wk, out>>
              [] OTHER ->
                   /\ out' = Append(out, ReEmit(e))
                   /\ UNCHANGED <<tasks, wk>>
    /\ UNCHANGED <<mainpc, startRet, npr>>

\* ------------------------------------------------------- DownloadWorker
Emit(w, evs) == mainq' = Post(mainq, w, evs)

\* a download() that does not report "downloading" (variant for C5)
BeginSilent(w) ==
    /\ wk[w].pc = "created"
    /\ wk' = [wk EXCEPT ![w].is_running = TRUE, ![w].pc = "run"]
    /\ UNCHANGED <<tasks, mainq, out, mainpc, startRet, npr>>

\* download(): started.emit, is_running = True, status_changed "downloading"
Begin(w) ==
    /\ wk[w].pc = "created"
    /\ Emit(w, << <<"status_changed", "downloading", 0>> >>)
    /\ wk' = [wk EXCEPT ![w].is_running = TRUE, ![w].pc = "run"]
    /\ UNCHANGED <<tasks, out, mainpc, startRet, npr>>

\* _download_douyin: the mode actually run, after the URL-type substitution
SubstMode(url_type, mode) ==
    CASE url_type = "user" /\ mode = "one" -> "post"
      [] url_type = "video" /\ mode = "post" -> "one"
      [] url_type = "mix" /\ mode # "mix" -> "mix"
      [] url_type = "live" /\ mode # "live" -> "live"
      [] OTHER -> mode

\* modes each platform routine accepts (every other mode raises ValueError)
PlatformModes(platform) ==
    CASE platform = "douyin" ->
            {"one", "post", "like", "collection", "mix", "music", "live"}
      [] platform = "tiktok" -> {"one", "post", "like", "collect", "mix", "live"}
      [] platform = "weibo" -> {"one", "post"}
      [] platform = "twitter" -> {"one", "post", "like", "bookmark"}
      [] OTHER -> {}

\* _run_download and the head of the platform routine: where the pipeline goes
\* next for the detected url_type: the paginated routine, one handler call, or
\* ValueError
Route(platform, mode, url_type) ==
    LET m == IF platform = "douyin" THEN SubstMode(url_type, mode) ELSE mode IN
    IF m \notin PlatformModes(platform) THEN "raise"
    ELSE IF platform = "douyin" /\ m = "post" THEN "resolve"
    ELSE "handler"

\* an except branch that reports the status before the error (variant for C4)
FailedStatusFirst(w) ==
    /\ Emit(w, << <<"status_changed", "failed", 0>>, <<"error", "", 0>> >>)
    /\ wk' = [wk EXCEPT ![w].pc = "fin", ![w].batch = 0]
    /\ UNCHANGED <<tasks, out, mainpc, startRet, npr>>

\* except Exception in download(): error.emit, status_changed "failed"
Failed(w) ==
    /\ Emit(w, << <<"error", "", 0>>, <<"status_changed", "failed", 0>> >>)
    /\ wk' = [wk EXCEPT ![w].pc = "fin", ![w].batch = 0]
    /\ UNCHANGED <<tasks, out, mainpc, startRet, npr>>

\* _run_download up to the platform routine's mode dispatch
RunDownload(w) ==
    /\ wk[w].pc = "run"
    /\ \E url_type \in UrlTypes :
         LET r == Route(wk[w].platform, wk[w].mode, url_type) IN
         IF r = "raise"
            THEN Failed(w)
            ELSE /\ wk' = [wk EXCEPT ![w].pc = r]
                 /\ UNCHANGED <<tasks, mainq, out, mainpc, startRet, npr>>

\* a call in flight (config, backend, handler, database) raises
Raise(w) ==
    /\ wk[w].pc \in {"run", "handler", "resolve", "loop", "mat"}
    /\ Failed(w)

\* handler.handle_*() of a non-paginated mode returns
HandleSingle(w) ==
    /\ wk[w].pc = "handler"
    /\ wk' = [wk EXCEPT ![w].pc = "after"]
    /\ UNCHANGED <<tasks, mainq, out, mainpc, startRet, npr>>

\* _download_douyin_user_posts up to the batch loop: sec_user_id (empty ->
\* ValueError), user_info_changed
Resolve(w) ==
    /\ wk[w].pc = "resolve"
    /\ \E sec_user_id \in {"", "u1"} :
         IF sec_user_id = ""
            THEN Failed(w)
            ELSE /\ Emit(w, << <<"user_info_changed", "", 0>> >>)
                 /\ wk' = [wk EXCEPT ![w].pc = "loop"]
                 /\ UNCHANGED <<tasks, out, mainpc, startRet, npr>>

\* one step of `async for aweme_list in handler.fetch_user_post_videos(...)`
\* with the two checks at the head of the loop body; results is what the
\* backend may yield
Fetch(w, results) ==
    /\ wk[w].pc = "loop"
    /\ \/ wk' = [wk EXCEPT ![w].pc = "after"]          \* the enumeration ends
       \/ /\ wk[w].nbatch < MaxBatches
          /\ \E r \in results :
               wk' = [wk EXCEPT
                        ![w].nbatch = @ + 1,
                        ![w].batch = IF wk[w].is_running /\ r # NoBatch THEN r ELSE @,
                        ![w].pc = IF ~wk[w].is_running THEN "after"   \* break
                                  ELSE IF r = NoBatch THEN "loop"     \* continue
                                  ELSE "mat"]
    /\ UNCHANGED <<tasks, mainq, out, mainpc, startRet, npr>>

\* a progress value without the min() caps (variant for C38)
ProgressValueUncapped(video_count, max_counts) ==
    IF max_counts > 0 THEN (video_count * 100) \div max_counts ELSE video_count

\* the progress value of the batch loop
ProgressValue(video_count, max_counts) ==
    IF max_counts > 0
       THEN LET p == (video_count * 100) \div max_counts IN IF p < 100 THEN p ELSE 100
       ELSE IF video_count < 95 THEN video_count ELSE 95

\* a count that forgets the earlier batches (variant for C7)
AccumulateBatchOnly(video_count, batch_count) == batch_count

\* the cumulative count after a batch
Accumulate(video_count, batch_count) == video_count + batch_count

\* rest of the loop body: count the batch, create_download_tasks, progress.emit
Materialize(w) ==
    /\ wk[w].pc = "mat"
    /\ LET vc == Accumulate(wk[w].video_count, wk[w].batch) IN
         /\ Emit(w, << <<"progress", "", ProgressValue(vc, wk[w].max_counts)>> >>)
         /\ wk' = [wk EXCEPT ![w].video_count = vc, ![w].pc = "loop", ![w].batch = 0,
                             ![w].pmat = IF wk[w].is_paused /\ @ < 2 THEN @ + 1 ELSE @]
    /\ UNCHANGED <<tasks, out, mainpc, startRet, npr>>

\* a routine that ends without its final progress event (variant for C26)
AfterNoProgress(w) ==
    /\ wk[w].pc = "after"
    /\ wk' = [wk EXCEPT ![w].pc = IF wk[w].is_running THEN "emitc" ELSE "fin"]
    /\ UNCHANGED <<tasks, mainq, out, mainpc, startRet, npr>>

\* the end of the platform routine: progress.emit(100, 100), then download()
\* reads is_running
After(w) ==
    /\ wk[w].pc = "after"
    /\ Emit(w, << <<"progress", "", 100>> >>)
    /\ wk' = [wk EXCEPT ![w].pc = IF wk[w].is_running THEN "emitc" ELSE "fin"]
    /\ UNCHANGED <<tasks, out, mainpc, startRet, npr>>

\* download(): status_changed "completed"
EmitCompleted(w) ==
    /\ wk[w].pc = "emitc"
    /\ Emit(w, << <<"status_changed", "completed", 0>> >>)
    /\ wk' = [wk EXCEPT ![w].pc = "fin"]
    /\ UNCHANGED <<tasks, out, mainpc, startRet, npr>>

\* download(): finished.emit and the finally block.  The lambda slot
\* (_on_finished) runs on this thread at once and emits task_finished and
\* task_completed, which are queued for the subscribers on the GUI thread;
\* then thread.quit is queued on the GUI thread
Finish(w) ==
    /\ Emit(w, << <<"task_finished", "", 0>>, <<"task_completed", "", 0>>,
                  <<"quit", "", 0>> >>)
    /\ wk[w].pc = "fin"
    /\ wk' = [wk EXCEPT ![w].pc = "exec", ![w].is_running = FALSE]
    /\ UNCHANGED <<tasks, out, mainpc, startRet, npr>>

\* the worker thread's event loop ends after quit(): QThread.finished is emitted
ThreadFinish(w) ==
    /\ wk[w].pc = "exec"
    /\ wk[w].quit
    /\ mainq' = Append(mainq, Ev(w, wk[w].task_id, "thread_finished", "", 0))
    /\ wk' = [wk EXCEPT ![w].pc = "dead"]
    /\ UNCHANGED <<tasks, out, mainpc, startRet, npr>>

\* --------------------------------------------------------- specifications
\* Spec: one task, started once, under every controller command; the backend
\* yields full batches
Next ==
    \/ \E t \in TaskIds, pm \in StartInputs :
          NumWorkers = 0 /\ start_download(t, pm[1], pm[2], 0) /\ UNCHANGED ext
    \/ \E t \in TaskIds : start_download_return(t) /\ UNCHANGED ext
    \/ \E t \in TaskIds : pause_download(t) /\ UNCHANGED ext
    \/ \E t \in TaskIds : resume_download(t) /\ UNCHANGED ext
    \/ \E t \in TaskIds : cancel_download(t) /\ UNCHANGED ext
    \/ \E t \in TaskIds : cancel_download_return(t) /\ UNCHANGED ext
    \/ Dispatch /\ UNCHANGED ext
    \/ \E w \in Workers : Begin(w) /\ UNCHANGED ext
    \/ \E w \in Workers : RunDownload(w) /\ UNCHANGED ext
    \/ \E w \in Workers : Raise(w) /\ UNCHANGED ext
    \/ \E w \in Workers : HandleSingle(w) /\ UNCHANGED ext
    \/ \E w \in Workers : Resolve(w) /\ UNCHANGED ext
    \/ \E w \in Workers : Fetch(w, {60}) /\ UNCHANGED ext
    \/ \E w \in Workers : Materialize(w) /\ UNCHANGED ext
    \/ \E w \in Workers : After(w) /\ UNCHANGED ext
    \/ \E w \in Workers : EmitCompleted(w) /\ UNCHANGED ext
    \/ \E w \in Workers : Finish(w) /\ UNCHANGED ext
    \/ \E w \in Workers : ThreadFinish(w) /\ UNCHANGED ext

Spec == Init /\ [][Next]_vars

\* SpecRun: one task, started once and possibly cancelled, over every backend
\* result and both kinds of max_counts
NextRun ==
    \/ \E t \in TaskIds, pm \in StartInputs, maxc \in MaxCountsChoices :
          NumWorkers = 0 /\ start_download(t, pm[1], pm[2], maxc) /\ UNCHANGED ext
    \/ \E t \in TaskIds : start_download_return(t) /\ UNCHANGED ext
    \/ \E t \in TaskIds : cancel_download(t) /\ UNCHANGED ext
    \/ \E t \in TaskIds : cancel_download_return(t) /\ UNCHANGED ext
    \/ Dispatch /\ UNCHANGED ext
    \/ \E w \in Workers : Begin(w) /\ UNCHANGED ext
    \/ \E w \in Workers : RunDownload(w) /\ UNCHANGED ext
    \/ \E w \in Workers : Raise(w) /\ UNCHANGED ext
    \/ \E w \in Workers : HandleSingle(w) /\ UNCHANGED ext
    \/ \E w \in Workers : Resolve(w) /\ UNCHANGED ext
    \/ \E w \in Workers : Fetch(w, BatchResults) /\ UNCHANGED ext
    \/ \E w \in Workers : Materialize(w) /\ UNCHANGED ext
    \/ \E w \in Workers : After(w) /\ UNCHANGED ext
    \/ \E w \in Workers : EmitCompleted(w) /\ UNCHANGED ext
    \/ \E w \in Workers : Finish(w) /\ UNCHANGED ext
    \/ \E w \in Workers : ThreadFinish(w) /\ UNCHANGED ext

SpecRun == Init /\ [][NextRun]_vars

\* SpecStart: repeated start_download of one id across completion, failure and
\* cancellation of non-paginated runs
NextStart ==
    \/ \E t \in TaskIds : start_download(t, "tiktok", "one", 0) /\ UNCHANGED ext
    \/ \E t \in TaskIds : start_download_return(t) /\ UNCHANGED ext
    \/ \E t \in TaskIds : cancel_download(t) /\ UNCHANGED ext
    \/ \E t \in TaskIds : cancel_download_return(t) /\ UNCHANGED ext
    \/ Dispatch /\ UNCHANGED ext
    \/ \E w \in Workers : Begin(w) /\ UNCHANGED ext
    \/ \E w \in Workers : RunDownload(w) /\ UNCHANGED ext
    \/ \E w \in Workers : Raise(w) /\ UNCHANGED ext
    \/ \E w \in Workers : HandleSingle(w) /\ UNCHANGED ext
    \/ \E w \in Workers : After(w) /\ UNCHANGED ext
    \/ \E w \in Workers : EmitCompleted(w) /\ UNCHANGED ext
    \/ \E w \in Workers : Finish(w) /\ UNCHANGED ext
    \/ \E w \in Workers : ThreadFinish(w) /\ UNCHANGED ext

SpecStart == Init /\ [][NextStart]_vars


\* SpecTwo: two tasks with different ids run side by side; every backend call
\* of the task FailingId raises, every backend call of the task OtherId returns
\* (full batches in the paginated routine)
TwoIds == {"t1", "t2"}
FailingId == "t1"
OtherId == "t2"

InitTwo ==
    /\ px = TiktokBackend
    /\ hm = HistoryManager
    /\ tc = [p \in ParseWorkers |-> NoCard]
    /\ cm = ConfigManager
    /\ tm = TaskManager
    /\ pw = [p \in ParseWorkers |-> NoParseWorker]
    /\ tasks = [t \in TwoIds |-> 0]
    /\ wk = [w \in Workers |-> NoWorker]
    /\ mainq = <<>>
    /\ out = <<>>
    /\ mainpc = Idle
    /\ startRet = [t \in TwoIds |-> "none"]
    /\ npr = 0
    /\ mw = MainWindow

\* the worker created for a task id (0 = none yet)
WorkerOf(t) ==
    IF \E w \in Workers : wk[w].task_id = t
       THEN CHOOSE w \in Workers : wk[w].task_id = t
       ELSE 0

NextTwo ==
    \/ \E t \in TwoIds, pm \in StartInputs :
          /\ WorkerOf(t) = 0
          /\ t = OtherId => pm[2] \in PlatformModes(pm[1])
          /\ start_download(t, pm[1], pm[2], 0)
          /\ UNCHANGED ext
    \/ \E t \in TwoIds : start_download_return(t) /\ UNCHANGED ext
    \/ Dispatch /\ UNCHANGED ext
    \/ \E w \in Workers : Begin(w) /\ UNCHANGED ext
    \/ \E w \in Workers : RunDownload(w) /\ UNCHANGED ext
    \/ \E w \in Workers : wk[w].task_id = FailingId /\ Raise(w) /\ UNCHANGED ext
    \/ \E w \in Workers :
          wk[w].task_id = OtherId /\ HandleSingle(w) /\ UNCHANGED ext
    \/ \E w \in Workers :
          wk[w].task_id = OtherId /\ Resolve(w) /\ wk'[w].pc = "loop" /\ UNCHANGED ext
    \/ \E w \in Workers :
          wk[w].task_id = OtherId /\ Fetch(w, {60}) /\ UNCHANGED ext
    \/ \E w \in Workers : Materialize(w) /\ UNCHANGED ext
    \/ \E w \in Workers : After(w) /\ UNCHANGED ext
    \/ \E w \in Workers : EmitCompleted(w) /\ UNCHANGED ext
    \/ \E w \in Workers : Finish(w) /\ UNCHANGED ext
    \/ \E w \in Workers : ThreadFinish(w) /\ UNCHANGED ext

SpecTwo == InitTwo /\ [][NextTwo]_vars


\* SpecMode: tasks started with a mode their platform does not have, or with a
\* platform that is not supported
InvalidInputs ==
    { <<"douyin", "collect">>, <<"tiktok", "music">>, <<"weibo", "like">>,
      <<"twitter", "mix">>, <<"kuaishou", "one">> }

NextMode ==
    \/ \E t \in TaskIds, pm \in InvalidInputs :
          start_download(t, pm[1], pm[2], 0) /\ UNCHANGED ext
    \/ \E t \in TaskIds : start_download_return(t) /\ UNCHANGED ext
    \/ Dispatch /\ UNCHANGED ext
    \/ \E w \in Workers : Begin(w) /\ UNCHANGED ext
    \/ \E w \in Workers : RunDownload(w) /\ UNCHANGED ext
    \/ \E w \in Workers : Raise(w) /\ UNCHANGED ext
    \/ \E w \in Workers : HandleSingle(w) /\ UNCHANGED ext
    \/ \E w \in Workers : After(w) /\ UNCHANGED ext
    \/ \E w \in Workers : EmitCompleted(w) /\ UNCHANGED ext
    \/ \E w \in Workers : Finish(w) /\ UNCHANGED ext
    \/ \E w \in Workers : ThreadFinish(w) /\ UNCHANGED ext

SpecMode == Init /\ [][NextMode]_vars

\* SpecRace: _on_finished step by step.  finished is connected to a lambda,
\* which has no receiver object and runs in the worker's thread; it reads
\* self._tasks twice (`task_id in self._tasks`, then `self._tasks[task_id]`)
\* while the GUI thread goes on with its own calls.
\* download(): finished.emit, _on_finished evaluates `task_id in self._tasks`
OnFinishedEnter(w) ==
    /\ wk[w].pc = "fin"
    /\ wk' = [wk EXCEPT ![w].pc = IF IsActive(wk[w].task_id) THEN "onfin_in" ELSE "onfin_out"]
    /\ UNCHANGED <<tasks, mainq, out, mainpc, startRet, npr>>

\* _on_finished, the rest: `self._tasks[task_id].worker` when the id was
\* found (KeyError when it has been popped since: the slot ends there and
\* neither signal is emitted), task_finished, task_completed, thread.quit is
\* queued, and the finally block of download()
OnFinishedEmit(w) ==
    /\ wk[w].pc \in {"onfin_in", "onfin_out"}
    /\ IF wk[w].pc = "onfin_in" /\ ~IsActive(wk[w].task_id)
          THEN /\ wk' = [wk EXCEPT ![w].pc = "keyerror", ![w].is_running = FALSE]
               /\ UNCHANGED mainq
          ELSE /\ Emit(w, << <<"task_finished", "", 0>>, <<"task_completed", "", 0>>,
                             <<"quit", "", 0>> >>)
               /\ wk' = [wk EXCEPT ![w].pc = "exec", ![w].is_running = FALSE]
    /\ UNCHANGED <<tasks, out, mainpc, startRet, npr>>

\* two tasks of a non-paginated mode whose backend calls return, started and
\* finishing in every order; the first of them can be cancelled
NextRace ==
    \/ \E t \in TwoIds :
          WorkerOf(t) = 0 /\ start_download(t, "tiktok", "one", 0) /\ UNCHANGED ext
    \/ \E t \in TwoIds : start_download_return(t) /\ UNCHANGED ext
    \/ cancel_download(FailingId) /\ UNCHANGED ext
    \/ cancel_download_return(FailingId) /\ UNCHANGED ext
    \/ Dispatch /\ UNCHANGED ext
    \/ \E w \in Workers : Begin(w) /\ UNCHANGED ext
    \/ \E w \in Workers : RunDownload(w) /\ UNCHANGED ext
    \/ \E w \in Workers : HandleSingle(w) /\ UNCHANGED ext
    \/ \E w \in Workers : After(w) /\ UNCHANGED ext
    \/ \E w \in Workers : EmitCompleted(w) /\ UNCHANGED ext
    \/ \E w \in Workers : OnFinishedEnter(w) /\ UNCHANGED ext
    \/ \E w \in Workers : OnFinishedEmit(w) /\ UNCHANGED ext
    \/ \E w \in Workers : ThreadFinish(w) /\ UNCHANGED ext

SpecRace == InitTwo /\ [][NextRace]_vars

\* ------------------------------------------------------------ MainWindow
\* the controller's variables
ctl == <<tasks, wk, mainq, out, mainpc, startRet, npr>>

\* _on_parse_finished: the task card is created and set to "pending"
on_parse_finished(t) ==
    /\ mw.cards[t] = "none"
    /\ mw' = [mw EXCEPT !.cards[t] = "pending"]
    /\ UNCHANGED <<ctl, nonwin>>

\* _start_single_task: only for a card that shows "pending"
start_single_task(t, platform, mode) ==
    /\ mw.cards[t] = "pending"
    /\ start_download(t, platform, mode, 0)
    /\ UNCHANGED ext

\* _on_task_status_changed: card.set_status if the id still has a card
on_task_status_changed(m, e) ==
    IF e.sig = "task_status_changed" /\ m.cards[e.id] \notin {"none", "gone"}
       THEN [m EXCEPT !.cards[e.id] = e.st]
       ELSE m

\* the main window's slots run on every signal the controller delivers
MwFollows ==
    mw' = IF Len(out') > Len(out) THEN on_task_status_changed(mw, out'[Len(out')])
                                  ELSE mw

\* _on_task_cancel, second half: the card is popped and deleted
PopCard(m, t) == [m EXCEPT !.cards[t] = "gone", !.cancelledIn[t] = m.cards[t]]

\* _on_task_cancel (the card's cancel button is enabled while it shows
\* pending, downloading or paused): cancel_download, then the card is popped
on_task_cancel(t) ==
    /\ mw.cards[t] \in {"pending", "downloading", "paused"}
    /\ cancel_download(t)
    /\ mw' = IF IsActive(t) THEN mw ELSE PopCard(mw, t)
    /\ UNCHANGED nonwin

on_task_cancel_return(t) ==
    /\ cancel_download_return(t)
    /\ mw' = PopCard(mw, t)
    /\ UNCHANGED nonwin

\* _on_task_pause / _on_task_resume (the card's pause button emits
\* pause_clicked while it shows downloading, resume_clicked while paused)
on_task_pause(t) ==
    /\ mw.cards[t] = "downloading"
    /\ pause_download(t)
    /\ MwFollows
    /\ UNCHANGED nonwin

on_task_resume(t) ==
    /\ mw.cards[t] = "paused"
    /\ resume_download(t)
    /\ MwFollows
    /\ UNCHANGED nonwin

\* SpecWindow: the cards of the main window over the controller, for
\* non-paginated runs
NextWindow ==
    \/ \E t \in TaskIds : on_parse_finished(t)
    \/ \E t \in TaskIds : start_single_task(t, "tiktok", "one")
    \/ \E t \in TaskIds : start_download_return(t) /\ UNCHANGED ext
    \/ \E t \in TaskIds : on_task_cancel(t)
    \/ \E t \in TaskIds : on_task_cancel_return(t)
    \/ \E t \in TaskIds : on_task_pause(t)
    \/ \E t \in TaskIds : on_task_resume(t)
    \/ Dispatch /\ MwFollows /\ UNCHANGED nonwin
    \/ \E w \in Workers : Begin(w) /\ UNCHANGED ext
    \/ \E w \in Workers : RunDownload(w) /\ UNCHANGED ext
    \/ \E w \in Workers : Raise(w) /\ UNCHANGED ext
    \/ \E w \in Workers : HandleSingle(w) /\ UNCHANGED ext
    \/ \E w \in Workers : After(w) /\ UNCHANGED ext
    \/ \E w \in Workers : EmitCompleted(w) /\ UNCHANGED ext
    \/ \E w \in Workers : Finish(w) /\ UNCHANGED ext
    \/ \E w \in Workers : ThreadFinish(w) /\ UNCHANGED ext

SpecWindow == Init /\ [][NextWindow]_vars

\* SpecAll: two cards and the "start all" button.
\* the configured download.max_tasks (the settings page allows 1 to 20)
max_tasks == 1

\* _task_cards in insertion order
CardOrder == <<"t1", "t2">>

InitAll ==
    /\ px = TiktokBackend
    /\ hm = HistoryManager
    /\ tc = [p \in ParseWorkers |-> NoCard]
    /\ cm = ConfigManager
    /\ tm = TaskManager
    /\ pw = [p \in ParseWorkers |-> NoParseWorker]
    /\ tasks = [t \in TwoIds |-> 0]
    /\ wk = [w \in Workers |-> NoWorker]
    /\ mainq = <<>>
    /\ out = <<>>
    /\ mainpc = Idle
    /\ startRet = [t \in TwoIds |-> "none"]
    /\ npr = 0
    /\ mw = [ cards |-> [t \in TwoIds |-> "none"],
              cancelledIn |-> [t \in TwoIds |-> "none"] ]

\* the cards _on_start_all_downloads calls _start_single_task for
PendingCards == { i \in 1..Len(CardOrder) : mw.cards[CardOrder[i]] = "pending" }

\* start_download, whole, for the cards at the positions `called`, in the
\* order of the cards: False for an id that is in _tasks, else a worker and
\* its thread are created and started, and task_added is emitted
StartCards(called) ==
    LET started == { i \in called : ~IsActive(CardOrder[i]) }
        rank(i) == Cardinality({ j \in started : j <= i })
        pos(t) == CHOOSE i \in 1..Len(CardOrder) : CardOrder[i] = t
        added[i \in 0..Len(CardOrder)] ==
            IF i = 0 THEN <<>>
            ELSE IF i \in started
                    THEN Append(added[i - 1], Ev(0, CardOrder[i], "task_added", "", 0))
                    ELSE added[i - 1] IN
    /\ mainpc = Idle
    /\ NumWorkers + Cardinality(started) <= MaxWorkers
    /\ wk' = [w \in Workers |->
                IF \E i \in started : w = NumWorkers + rank(i)
                   THEN DownloadWorker(
                          CardOrder[CHOOSE i \in started : w = NumWorkers + rank(i)],
                          "tiktok", "one", 0)
                   ELSE wk[w]]
    /\ tasks' = [t \in DOMAIN tasks |->
                   IF pos(t) \in started THEN NumWorkers + rank(pos(t)) ELSE tasks[t]]
    /\ out' = out \o added[Len(CardOrder)]
    /\ startRet' = [t \in DOMAIN startRet |->
                      IF pos(t) \in started THEN "true"
                      ELSE IF pos(t) \in called THEN "false" ELSE startRet[t]]
    /\ UNCHANGED <<mainq, mainpc, npr>>

\* a start-all that starts the first pending card only (variant for C33)
on_start_all_downloads_first ==
    /\ PendingCards # {}
    /\ StartCards({CHOOSE i \in PendingCards : \A j \in PendingCards : i <= j})

\* _on_start_all_downloads: _start_single_task for every card whose status
\* is "pending"
on_start_all_downloads ==
    /\ PendingCards # {}
    /\ StartCards(PendingCards)

NextAll ==
    \/ \E t \in TwoIds : on_parse_finished(t)
    \/ on_start_all_downloads /\ UNCHANGED ext
    \/ Dispatch /\ MwFollows /\ UNCHANGED nonwin
    \/ \E w \in Workers : Begin(w) /\ UNCHANGED ext
    \/ \E w \in Workers : RunDownload(w) /\ UNCHANGED ext
    \/ \E w \in Workers : Raise(w) /\ UNCHANGED ext
    \/ \E w \in Workers : HandleSingle(w) /\ UNCHANGED ext
    \/ \E w \in Workers : After(w) /\ UNCHANGED ext
    \/ \E w \in Workers : EmitCompleted(w) /\ UNCHANGED ext
    \/ \E w \in Workers : Finish(w) /\ UNCHANGED ext
    \/ \E w \in Workers : ThreadFinish(w) /\ UNCHANGED ext

SpecAll == InitAll /\ [][NextAll]_vars

\* --------------------------------------------------------- ConfigManager
\* get_all: _config.copy() is a shallow copy, so the copy's sections are the
\* dict objects of _config
get_all(c) == c.config

\* _get_full_config as called by _add_task_to_queue / _create_download_task:
\* the task's config takes its sections out of get_all(); the dict is stored
\* in task_meta and handed to start_download and DownloadWorker.__init__
\* without a copy
get_full_config ==
    /\ \A sec \in Sections : cm.task_config[sec] = NoObject
    /\ cm' = [cm EXCEPT
                !.task_config = get_all(cm),
                !.captured = [sec \in Sections |-> cm.heap[get_all(cm)[sec]]]]

\* _deep_update for a section that exists in the target: the recursion writes
\* into the section's dict object
deep_update(c, sec, v) == [c EXCEPT !.heap[c.config[sec]] = v]

\* ConfigManager.update({sec: {...}}) (_on_settings_changed)
update(sec, v) == cm' = deep_update(cm, sec, v)

\* ConfigManager.set("sec.key", value): walks to the section's dict object and
\* assigns the key there
set(sec, v) == cm' = [cm EXCEPT !.heap[cm.config[sec]] = v]

\* ConfigManager.reset: _config becomes a new dict of new default sections
reset ==
    /\ cm.nreset < MaxConfigResets
    /\ cm' = [cm EXCEPT
                !.nreset = @ + 1,
                !.config = [sec \in Sections |->
                              3 * (cm.nreset + 1) + SectionIndex(sec)],
                !.heap = [o \in Objects |->
                            IF o > 3 * (cm.nreset + 1) THEN "default" ELSE cm.heap[o]]]

\* _prepare_config: the worker reads the sections out of self.config
\* (self.config.copy() is shallow again)
prepare_config ==
    /\ \A sec \in Sections : cm.task_config[sec] # NoObject
    /\ cm' = [cm EXCEPT !.read = [sec \in Sections |-> cm.heap[cm.task_config[sec]]]]

\* SpecConfig: the settings change before and after a task's config is built
\* and while the task reads it
NextConfig ==
    \/ get_full_config /\ UNCHANGED <<ctl, mw, tm, pw, px, tc, hm>>
    \/ \E sec \in Sections, v \in SettingValues :
          update(sec, v) /\ UNCHANGED <<ctl, mw, tm, pw, px, tc, hm>>
    \/ \E sec \in Sections, v \in SettingValues :
          set(sec, v) /\ UNCHANGED <<ctl, mw, tm, pw, px, tc, hm>>
    \/ reset /\ UNCHANGED <<ctl, mw, tm, pw, px, tc, hm>>
    \/ prepare_config /\ UNCHANGED <<ctl, mw, tm, pw, px, tc, hm>>

SpecConfig == Init /\ [][NextConfig]_vars

\* ----------------------------------------------------------- TaskManager
\* (platform, mode, url) arguments of add_task
AddInputs == { <<"douyin", "post", "u1">>, <<"tiktok", "one", "u2">> }
\* current arguments of update_task_progress (total is 100)
ProgressInputs == {0, 50}

\* the DownloadTask dataclass as add_task constructs it
NewTask(platform, mode, url, created_at) ==
    [ platform |-> platform, mode |-> mode, url |-> url, status |-> "pending",
      current |-> 0, total |-> 0, created_at |-> created_at,
      started_at |-> None, finished_at |-> None, error_message |-> "" ]

\* add_task: builds a DownloadTask and stores it under task_id, whether the
\* id has an entry or not
add_task(t, platform, mode, url) ==
    /\ tm.now < MaxClock
    /\ tm' = [tm EXCEPT !.now = @ + 1,
                        !.tasks[t] = NewTask(platform, mode, url, tm.now + 1)]

\* update_task_status
update_task_status(t, status) ==
    IF tm.tasks[t] # NoTask
       THEN IF status = "downloading" /\ tm.tasks[t].started_at = None
               THEN /\ tm.now < MaxClock
                    /\ tm' = [tm EXCEPT !.now = @ + 1,
                                        !.tasks[t].status = status,
                                        !.tasks[t].started_at = tm.now + 1]
            ELSE IF status \in {"completed", "error", "cancelled"}
               THEN /\ tm.now < MaxClock
                    /\ tm' = [tm EXCEPT !.now = @ + 1,
                                        !.tasks[t].status = status,
                                        !.tasks[t].finished_at = tm.now + 1]
            ELSE tm' = [tm EXCEPT !.tasks[t].status = status]
       ELSE tm' = tm

\* get_task: self._tasks.get(task_id)
get_task(t) == IF tm.tasks[t] # NoTask THEN tm.tasks[t] ELSE None

\* an update_task_progress that makes an entry for an unknown id (variant
\* for C40)
update_task_progress_upsert(t, current, total) ==
    tm' = IF tm.tasks[t] # NoTask
             THEN [tm EXCEPT !.tasks[t].current = current, !.tasks[t].total = total]
             ELSE [tm EXCEPT !.tasks[t] =
                     [NewTask("", "", "", tm.now) EXCEPT !.current = current,
                                                         !.total = total]]

\* update_task_progress
update_task_progress(t, current, total) ==
    tm' = IF tm.tasks[t] # NoTask
             THEN [tm EXCEPT !.tasks[t].current = current, !.tasks[t].total = total]
             ELSE tm

\* a set_task_error that starts the progress over (variant for C27)
set_task_error_reset(t, error_message) ==
    IF tm.tasks[t] # NoTask
       THEN /\ tm.now < MaxClock
            /\ tm' = [tm EXCEPT !.now = @ + 1,
                                !.tasks[t].status = "error",
                                !.tasks[t].error_message = error_message,
                                !.tasks[t].current = 0,
                                !.tasks[t].finished_at = tm.now + 1]
       ELSE tm' = tm

\* set_task_error
set_task_error(t, error_message) ==
    IF tm.tasks[t] # NoTask
       THEN /\ tm.now < MaxClock
            /\ tm' = [tm EXCEPT !.now = @ + 1,
                                !.tasks[t].status = "error",
                                !.tasks[t].error_message = error_message,
                                !.tasks[t].finished_at = tm.now + 1]
       ELSE tm' = tm

\* remove_task
remove_task(t) == tm' = [tm EXCEPT !.tasks[t] = NoTask]

\* a clear_completed that removes every finished task (variant for C34)
clear_finished ==
    tm' = [tm EXCEPT !.tasks =
             [t \in DOMAIN tm.tasks |->
                IF tm.tasks[t].status \in {"completed", "error", "cancelled"}
                   THEN NoTask ELSE tm.tasks[t]]]

\* clear_completed
clear_completed ==
    tm' = [tm EXCEPT !.tasks =
             [t \in DOMAIN tm.tasks |-> IF tm.tasks[t].status = "completed"
                                           THEN NoTask ELSE tm.tasks[t]]]

\* clear_all
clear_all == tm' = [tm EXCEPT !.tasks = [t \in DOMAIN tm.tasks |-> NoTask]]

\* get_tasks_by_status, as a count
CountByStatus(status) ==
    Cardinality({t \in DOMAIN tm.tasks : tm.tasks[t] # NoTask /\ tm.tasks[t].status = status})

\* get_statistics
get_statistics ==
    [ total |-> Cardinality({t \in DOMAIN tm.tasks : tm.tasks[t] # NoTask}),
      downloading |-> CountByStatus("downloading"),
      completed |-> CountByStatus("completed"),
      error |-> CountByStatus("error"),
      pending |-> CountByStatus("pending"),
      paused |-> CountByStatus("paused") ]

\* SpecTM: every call of the registry, in every order
NextTM ==
    \/ \E t \in TaskIds, a \in AddInputs :
          add_task(t, a[1], a[2], a[3]) /\ UNCHANGED <<ctl, mw, cm, pw, px, tc, hm>>
    \/ \E t \in TaskIds, status \in TaskStatus :
          update_task_status(t, status) /\ UNCHANGED <<ctl, mw, cm, pw, px, tc, hm>>
    \/ \E t \in TaskIds, current \in ProgressInputs :
          update_task_progress(t, current, 100) /\ UNCHANGED <<ctl, mw, cm, pw, px, tc, hm>>
    \/ \E t \in TaskIds : set_task_error(t, "boom") /\ UNCHANGED <<ctl, mw, cm, pw, px, tc, hm>>
    \/ \E t \in TaskIds : remove_task(t) /\ UNCHANGED <<ctl, mw, cm, pw, px, tc, hm>>
    \/ clear_completed /\ UNCHANGED <<ctl, mw, cm, pw, px, tc, hm>>
    \/ clear_all /\ UNCHANGED <<ctl, mw, cm, pw, px, tc, hm>>

SpecTM == Init /\ [][NextTM]_vars

\* SpecRegistry: a registry of two tasks under every call, next to a task
\* that the controller runs to its completion or failure
InitRegistry ==
    /\ px = TiktokBackend
    /\ hm = HistoryManager
    /\ tc = [p \in ParseWorkers |-> NoCard]
    /\ cm = ConfigManager
    /\ tm = [tasks |-> [t \in TwoIds |-> NoTask], now |-> 0]
    /\ pw = [p \in ParseWorkers |-> NoParseWorker]
    /\ tasks = [t \in TaskIds |-> 0]
    /\ wk = [w \in Workers |-> NoWorker]
    /\ mainq = <<>>
    /\ out = <<>>
    /\ mainpc = Idle
    /\ startRet = [t \in TaskIds |-> "none"]
    /\ npr = 0
    /\ mw = MainWindow

NextRegistry ==
    \/ \E t \in TwoIds :
          add_task(t, "tiktok", "one", "u2") /\ UNCHANGED <<ctl, mw, cm, pw, px, tc, hm>>
    \/ \E t \in TwoIds, status \in TaskStatus :
          update_task_status(t, status) /\ UNCHANGED <<ctl, mw, cm, pw, px, tc, hm>>
    \/ \E t \in TwoIds :
          update_task_progress(t, 50, 100) /\ UNCHANGED <<ctl, mw, cm, pw, px, tc, hm>>
    \/ \E t \in TwoIds : set_task_error(t, "boom") /\ UNCHANGED <<ctl, mw, cm, pw, px, tc, hm>>
    \/ \E t \in TwoIds : remove_task(t) /\ UNCHANGED <<ctl, mw, cm, pw, px, tc, hm>>
    \/ clear_completed /\ UNCHANGED <<ctl, mw, cm, pw, px, tc, hm>>
    \/ clear_all /\ UNCHANGED <<ctl, mw, cm, pw, px, tc, hm>>
    \/ \E t \in TaskIds :
          NumWorkers = 0 /\ start_download(t, "tiktok", "one", 0) /\ UNCHANGED ext
    \/ \E t \in TaskIds : start_download_return(t) /\ UNCHANGED ext
    \/ Dispatch /\ UNCHANGED ext
    \/ \E w \in Workers : Begin(w) /\ UNCHANGED ext
    \/ \E w \in Workers : RunDownload(w) /\ UNCHANGED ext
    \/ \E w \in Workers : Raise(w) /\ UNCHANGED ext
    \/ \E w \in Workers : HandleSingle(w) /\ UNCHANGED ext
    \/ \E w \in Workers : After(w) /\ UNCHANGED ext
    \/ \E w \in Workers : EmitCompleted(w) /\ UNCHANGED ext
    \/ \E w \in Workers : Finish(w) /\ UNCHANGED ext
    \/ \E w \in Workers : ThreadFinish(w) /\ UNCHANGED ext

SpecRegistry == InitRegistry /\ [][NextRegistry]_vars

\* -------------------------------------------------------- UrlParseWorker
\* the platforms a URL is parsed for
Platforms == {"douyin", "tiktok", "weibo"}
\* str(e) of a caught exception: exceptions raised without arguments
\* (asyncio.TimeoutError()) have an empty text
Messages == {"", "msg"}
\* self.url and what extract_valid_urls returns for it
RawUrl == "raw"
ExtractedUrl == "extracted"

\* _add_task_to_queue: a UrlParseWorker and its thread are created
add_task_to_queue(p, platform) ==
    /\ pw[p].pc = "none"
    /\ \A q \in ParseWorkers : q < p => pw[q].pc # "none"
    /\ pw' = [pw EXCEPT ![p] = UrlParseWorker(platform)]

\* finished.emit(parsed_url, nickname, user_id, error)
Finished(r, parsed_url, nickname, user_id, error) ==
    [ r EXCEPT !.emitted = Append(@, [ parsed_url |-> parsed_url, nickname |-> nickname,
                                       user_id |-> user_id, error |-> error ]),
               !.pc = "done" ]

\* an except branch of _do_parse that returns without its emit (variant for C17)
DoParseExceptSilent(r, msg) == [r EXCEPT !.pc = "done"]

\* except Exception in _do_parse: finished.emit with the locals and str(e)
DoParseExcept(r, msg) == Finished(r, r.parsed_url, r.nickname, r.user_id, msg)

\* parse: new_event_loop / set_event_loop, then _do_parse starts with
\* parsed_url = self.url; if the loop cannot be made, except Exception emits
\* finished(self.url, "", "", str(e))
parse(p) ==
    /\ pw[p].pc = "created"
    /\ \/ pw' = [pw EXCEPT ![p].pc = "extract", ![p].parsed_url = RawUrl]
       \/ \E msg \in Messages :
             pw' = [pw EXCEPT ![p] =
                      Finished([pw[p] EXCEPT !.failed = @ \cup {"loop"}],
                               RawUrl, "", "", msg)]

\* _do_parse: the imports and extract_valid_urls.  The call returns a URL,
\* returns nothing, or raises (outer except)
extract_valid_urls(p) ==
    /\ pw[p].pc = "extract"
    /\ LET nxt == IF pw[p].platform = "douyin" THEN "sec_user_id" ELSE "emit" IN
       \/ pw' = [pw EXCEPT ![p].parsed_url = ExtractedUrl, ![p].pc = nxt]
       \/ pw' = [pw EXCEPT ![p].failed = @ \cup {"extract"}, ![p].pc = nxt]
       \/ \E msg \in Messages :
             pw' = [pw EXCEPT ![p] =
                      DoParseExcept([pw[p] EXCEPT !.failed = @ \cup {"extract"}], msg)]

\* _do_parse, douyin: SecUserIdFetcher.get_sec_user_id.  It returns an id,
\* returns nothing, or raises; the inner except only logs a warning
get_sec_user_id(p) ==
    /\ pw[p].pc = "sec_user_id"
    /\ \/ pw' = [pw EXCEPT ![p].user_id = "u1", ![p].pc = "db"]
       \/ pw' = [pw EXCEPT ![p].failed = @ \cup {"user_id"}, ![p].pc = "emit"]

\* _do_parse, douyin: the lookup in the local user database.  It finds a
\* nickname, finds nothing, or raises (except Exception: pass)
get_user_info(p) ==
    /\ pw[p].pc = "db"
    /\ \/ pw' = [pw EXCEPT ![p].nickname = "nick", ![p].pc = "emit"]
       \/ pw' = [pw EXCEPT ![p].pc = "emit"]
       \/ pw' = [pw EXCEPT ![p].failed = @ \cup {"db"}, ![p].pc = "emit"]

\* _do_parse: finished.emit(parsed_url, nickname, user_id, "")
emit_result(p) ==
    /\ pw[p].pc = "emit"
    /\ pw' = [pw EXCEPT ![p] =
                Finished(pw[p], pw[p].parsed_url, pw[p].nickname, pw[p].user_id, "")]

\* SpecParse: URL parse runs side by side, over every platform and every
\* result of the calls they make
NextParse ==
    \/ \E p \in ParseWorkers, platform \in Platforms :
          add_task_to_queue(p, platform) /\ UNCHANGED <<ctl, mw, cm, tm, px, tc, hm>>
    \/ \E p \in ParseWorkers : parse(p) /\ UNCHANGED <<ctl, mw, cm, tm, px, tc, hm>>
    \/ \E p \in ParseWorkers : extract_valid_urls(p) /\ UNCHANGED <<ctl, mw, cm, tm, px, tc, hm>>
    \/ \E p \in ParseWorkers : get_sec_user_id(p) /\ UNCHANGED <<ctl, mw, cm, tm, px, tc, hm>>
    \/ \E p \in ParseWorkers : get_user_info(p) /\ UNCHANGED <<ctl, mw, cm, tm, px, tc, hm>>
    \/ \E p \in ParseWorkers : emit_result(p) /\ UNCHANGED <<ctl, mw, cm, tm, px, tc, hm>>

SpecParse == Init /\ [][NextParse]_vars

\* ------------------------------------------------------ task card identity
\* DownloadTaskCard.__init__ as _on_parse_finished calls it
DownloadTaskCard(url, nickname, user_id) ==
    [ NoCard EXCEPT !.exists = TRUE, !.url = url, !.nickname = nickname,
                    !.user_id = user_id ]

\* DownloadTaskCard.set_user_info
set_user_info(c, nickname, user_id) == [c EXCEPT !.nickname = nickname, !.user_id = user_id]

\* DownloadTaskCard.set_url
set_url(c, url) == [c EXCEPT !.url = url]

\* what the user lookups of _download_douyin_user_posts can yield as a
\* nickname: the nickname of the database row or of the fetched profile
\* (any text, the empty one included), the default of user_info.get, or
\* sec_user_id[:8]
ExecutorNicknames == {"", "nick", "unknown_user", "u1"}

\* _on_parse_finished: the card is made from the parse worker's finished
\* signal, with the original URL when the parsed one is empty
on_parse_finished_card(p) ==
    /\ pw[p].pc = "done"
    /\ ~tc[p].exists
    /\ LET e == pw[p].emitted[1] IN
       tc' = [tc EXCEPT ![p] =
                DownloadTaskCard(IF e.parsed_url # "" THEN e.parsed_url ELSE RawUrl,
                                 e.nickname, e.user_id)]
    /\ UNCHANGED pw

\* _download_douyin_user_posts: extract_valid_urls; url_parsed is emitted
\* only for a URL that was found, and _on_task_url_parsed hands it to the card
executor_extract_url(p) ==
    /\ tc[p].exists /\ pw[p].platform = "douyin" /\ tc[p].pc = "none"
    /\ \/ tc' = [tc EXCEPT ![p] = [set_url(tc[p], ExtractedUrl) EXCEPT !.pc = "user"]]
       \/ tc' = [tc EXCEPT ![p].pc = "user"]
    /\ UNCHANGED pw

\* _download_douyin_user_posts: get_sec_user_id (no id raises ValueError),
\* the nickname lookups, then user_info_changed, which
\* _on_task_user_info_changed hands to the card
executor_user_info(p) ==
    /\ tc[p].exists /\ tc[p].pc = "user"
    /\ \/ \E nickname \in ExecutorNicknames :
             tc' = [tc EXCEPT ![p] = [set_user_info(tc[p], nickname, "u1") EXCEPT !.pc = "done"]]
       \/ tc' = [tc EXCEPT ![p].pc = "failed"]
    /\ UNCHANGED pw

\* SpecCard: URL parses, the cards made from their results and the identity
\* events of the tasks started from the cards
NextCard ==
    \/ \E p \in ParseWorkers, platform \in Platforms :
          add_task_to_queue(p, platform) /\ UNCHANGED <<ctl, mw, cm, tm, px, tc, hm>>
    \/ \E p \in ParseWorkers : parse(p) /\ UNCHANGED <<ctl, mw, cm, tm, px, tc, hm>>
    \/ \E p \in ParseWorkers : extract_valid_urls(p) /\ UNCHANGED <<ctl, mw, cm, tm, px, tc, hm>>
    \/ \E p \in ParseWorkers : get_sec_user_id(p) /\ UNCHANGED <<ctl, mw, cm, tm, px, tc, hm>>
    \/ \E p \in ParseWorkers : get_user_info(p) /\ UNCHANGED <<ctl, mw, cm, tm, px, tc, hm>>
    \/ \E p \in ParseWorkers : emit_result(p) /\ UNCHANGED <<ctl, mw, cm, tm, px, tc, hm>>
    \/ \E p \in ParseWorkers : on_parse_finished_card(p) /\ UNCHANGED <<ctl, mw, cm, tm, px, hm>>
    \/ \E p \in ParseWorkers : executor_extract_url(p) /\ UNCHANGED <<ctl, mw, cm, tm, px, hm>>
    \/ \E p \in ParseWorkers : executor_user_info(p) /\ UNCHANGED <<ctl, mw, cm, tm, px, hm>>

SpecCard == Init /\ [][NextCard]_vars

\* ------------------------------------------------------- HistoryManager
\* the arguments MainWindow hands to add_record: the URL of the card, the
\* user id of the card (empty while unknown), the outcome
HistoryUrls == {"a", "b"}
HistoryUserIds == {"", "u1"}
HistoryStatuses == {"success", "failed"}
\* add_record keeps the latest 1000 records
HistoryLimit == 1000

\* _find_duplicate: the position of the first record of the platform and mode
\* that has the user id, or, for an empty user id, the URL (0 = None)
find_duplicate(records, platform, user_id, url, mode) ==
    LET hits == { i \in 1..Len(records) :
                    /\ records[i].platform = platform
                    /\ records[i].mode = mode
                    /\ \/ user_id # "" /\ records[i].user_id = user_id
                       \/ user_id = "" /\ records[i].url = url } IN
    IF hits = {} THEN 0 ELSE CHOOSE i \in hits : \A j \in hits : i <= j

\* the sequence without its i-th element
RemoveAt(seq, i) == SubSeq(seq, 1, i - 1) \o SubSeq(seq, i + 1, Len(seq))

\* add_record(platform, url, status=status, mode=mode, user_id=user_id): the
\* record _find_duplicate returns is updated (status, url, download_count,
\* then every keyword argument, user_id among them) and moved to the front;
\* without one a new record is put in front
add_record(platform, url, status, mode, user_id) ==
    /\ hm.nadds < MaxHistoryAdds
    /\ LET i == find_duplicate(hm.records, platform, user_id, url, mode) IN
       IF i # 0
          THEN LET existing == [hm.records[i] EXCEPT
                                  !.status = status, !.url = url,
                                  !.download_count = IF status = "success" THEN @ + 1 ELSE @,
                                  !.user_id = user_id] IN
               hm' = [records |-> <<existing>> \o RemoveAt(hm.records, i),
                      nadds |-> hm.nadds + 1]
          ELSE LET record == [id |-> hm.nadds + 1, platform |-> platform, url |-> url,
                              status |-> status, mode |-> mode, download_count |-> 1,
                              user_id |-> user_id]
                   all == <<record>> \o hm.records IN
               hm' = [records |-> IF Len(all) > HistoryLimit
                                     THEN SubSeq(all, 1, HistoryLimit) ELSE all,
                      nadds |-> hm.nadds + 1]

\* the key _auto_repair removes duplicates by
RepairKey(r) == <<r.platform, IF r.user_id # "" THEN r.user_id ELSE r.url, r.mode>>

\* check_and_repair -> _auto_repair: of the records with the same key the
\* first one is kept
check_and_repair ==
    LET recs == hm.records
        keep == { i \in 1..Len(recs) :
                    \A j \in 1..(i - 1) : RepairKey(recs[j]) # RepairKey(recs[i]) }
        F[i \in 0..Len(recs)] ==
            IF i = 0 THEN <<>>
            ELSE IF i \in keep THEN Append(F[i - 1], recs[i]) ELSE F[i - 1] IN
    hm' = [hm EXCEPT !.records = F[Len(recs)]]

\* clear_all
history_clear_all == hm' = [hm EXCEPT !.records = <<>>]

\* SpecHistory: the history under every sequence of its operations
NextHistory ==
    \/ \E url \in HistoryUrls, status \in HistoryStatuses, user_id \in HistoryUserIds :
          add_record("douyin", url, status, "post", user_id)
          /\ UNCHANGED <<ctl, mw, cm, tm, pw, px, tc>>
    \/ hm.records # <<>> /\ check_and_repair /\ UNCHANGED <<ctl, mw, cm, tm, pw, px, tc>>
    \/ hm.records # <<>> /\ history_clear_all /\ UNCHANGED <<ctl, mw, cm, tm, pw, px, tc>>

SpecHistory == Init /\ [][NextHistory]_vars

\* ------------------------------------------------------- TikTok proxy
\* the configuration files ConfigManager.load_config reads: conf.yaml has the
\* section f2.tiktok, app.yaml has no key "f2"
ConfigFiles == {"conf.yaml", "app.yaml"}

\* a load_config that was never patched (variant for C19)
load_config_unpatched(file, patch) == FileProxies

\* patched_load_config: the original load_config, then the injection of the
\* proxies if the loaded config has config["f2"]["tiktok"]; the value is the
\* proxies of the TikTok section the caller gets
patched_load_config(file, patch) ==
    IF patch # NoProxy /\ file = "conf.yaml" THEN patch ELSE FileProxies

\* TokenManager.gen_real_msToken: a token requested through these proxies
gen_real_msToken(proxies) == proxies

\* _update_tiktok_proxy_after_import: the three class attributes are set;
\* then gen_real_msToken is tried, and if it raises (ok = FALSE) the except
\* branch logs a warning and _MSTOKEN and the Cookie header stay as they are
update_tiktok_proxy_after_import(b, proxies, ok) ==
    LET c == [b EXCEPT !.tiktok_conf = proxies, !.token_proxies = proxies,
                       !.device_proxies = proxies]
    IN  IF ok
           THEN [c EXCEPT !.mstoken = gen_real_msToken(c.token_proxies),
                          !.cookie = gen_real_msToken(c.token_proxies)]
           ELSE c

\* _setup_tiktok_proxy_before_import
setup_tiktok_proxy_before_import(b, proxies, ok) ==
    LET c == [b EXCEPT !.override = proxies] IN
    IF b.loaded                   \* "f2.apps.tiktok.utils" in sys.modules
       THEN update_tiktok_proxy_after_import(c, proxies, ok)
       ELSE [c EXCEPT !.patch = proxies]

\* _run_download of a TikTok task up to _prepare_config:
\* _setup_tiktok_proxy_before_any_import with the task's proxy setting
\* (address = NoProxy: the proxy is not enabled, nothing is set up)
setup_tiktok_proxy_before_any_import(address, ok) ==
    /\ px.ntasks < MaxProxyTasks
    /\ LET b == [px EXCEPT !.ntasks = @ + 1, !.task = "prepare",
                           !.inject = IF address = NoProxy THEN "none"
                                      ELSE IF px.loaded /\ ~ok THEN "failed"
                                      ELSE "ok"] IN
       px' = IF address # NoProxy
                THEN setup_tiktok_proxy_before_import(b, address, ok)
                ELSE b

\* an except branch that raises again (variant for C21)
InjectionExceptRaises(b) == [b EXCEPT !.inject = "failed", !.task = "failed"]

\* except Exception of _setup_tiktok_proxy_before_import and of
\* _update_tiktok_proxy_after_import: a warning is logged and the method
\* returns, so _run_download goes on to _prepare_config
InjectionExcept(b) == [b EXCEPT !.inject = "failed", !.task = "prepare"]

\* _run_download of a TikTok task whose proxy setup raises inside the try
\* block of either path, before anything was assigned (the import of
\* f2.utils.conf_manager or of the backend classes fails)
setup_tiktok_proxy_raises ==
    /\ px.ntasks < MaxProxyTasks
    /\ px' = InjectionExcept([px EXCEPT !.ntasks = @ + 1])

\* _run_download of a TikTok task: _prepare_config has returned (the backend
\* module is loaded), the platform routine is entered
enter_download_tiktok ==
    /\ px.task = "prepare"
    /\ px.loaded
    /\ px' = [px EXCEPT !.task = "routine"]

\* _prepare_config of a TikTok task: `from f2.apps.tiktok.utils import
\* ClientConfManager` loads the module the first time.  At load time
\* ClientConfManager reads its section through ConfigManager.load_config,
\* TokenManager and DeviceIdManager bind ClientConfManager.proxies(), and
\* DeviceIdManager derives _MSTOKEN with TokenManager.gen_real_msToken()
import_tiktok_utils ==
    /\ px.ntasks > 0
    /\ ~px.loaded
    /\ LET proxies == patched_load_config("conf.yaml", px.patch) IN
       px' = [px EXCEPT !.loaded = TRUE,
                        !.tiktok_conf = proxies,
                        !.token_proxies = proxies,
                        !.device_proxies = proxies,
                        !.mstoken = gen_real_msToken(proxies),
                        !.cookie = gen_real_msToken(proxies),
                        !.patch_at_load = px.patch,
                        !.first = proxies,
                        !.load_task = px.ntasks]

\* a call of the backend by a TikTok task: it goes through the proxies
\* bound to the backend classes
backend_call ==
    /\ px.loaded
    /\ px' = [px EXCEPT !.seen = px.token_proxies, !.seen_task = px.ntasks]

\* SpecProxy: TikTok tasks with and without a proxy setting, one after the
\* other, around the first load of the backend module
NextProxy ==
    \/ \E address \in Proxies \cup {NoProxy}, ok \in BOOLEAN :
          setup_tiktok_proxy_before_any_import(address, ok)
          /\ UNCHANGED <<ctl, mw, cm, tm, pw, tc, hm>>
    \/ setup_tiktok_proxy_raises /\ UNCHANGED <<ctl, mw, cm, tm, pw, tc, hm>>
    \/ import_tiktok_utils /\ UNCHANGED <<ctl, mw, cm, tm, pw, tc, hm>>
    \/ enter_download_tiktok /\ UNCHANGED <<ctl, mw, cm, tm, pw, tc, hm>>
    \/ backend_call /\ UNCHANGED <<ctl, mw, cm, tm, pw, tc, hm>>

SpecProxy == Init /\ [][NextProxy]_vars

\* ------------------------------------------------------------ the claims
\* the events of one task / of one worker in the outward stream
OutOf(t) == SelectSeq(out, LAMBDA e : e.id = t)
OutBy(w) == SelectSeq(out, LAMBDA e : e.w = w)
Pending(q, w) == \E i \in 1..Len(q) : q[i].w = w /\ q[i].sig \notin {"quit", "thread_finished"}
ProgressOf(t) == SelectSeq(out, LAMBDA e : e.id = t /\ e.sig = "task_progress")
Has(s, sig, st) == \E i \in 1..Len(s) : s[i].sig = sig /\ s[i].st = st

\* the statuses reported for a task, after the Pending it is created in
StatusesOf(t) ==
    LET s == SelectSeq(out, LAMBDA e : e.id = t /\ e.sig = "task_status_changed")
    IN  <<"pending">> \o [i \in 1..Len(s) |-> s[i].st]

\* The task state machine.  The worker has no Resolving status of its own, so
\* Pending -> Resolving -> Downloading is observed as Pending -> Downloading.
StatusEdges ==
    { <<"pending", "resolving">>, <<"resolving", "downloading">>,
      <<"pending", "downloading">>,
      <<"downloading", "paused">>, <<"paused", "downloading">>,
      <<"downloading", "completed">>, <<"downloading", "failed">>,
      <<"pending", "cancelled">>, <<"resolving", "cancelled">>,
      <<"downloading", "cancelled">>, <<"paused", "cancelled">> }

\* C1: every observed status change of a task follows an edge of the task
\* state machine; in particular no status follows Completed, Failed or
\* Cancelled.
C1_StateMachineSound ==
    \A t \in TaskIds :
       LET S == StatusesOf(t) IN
       \A i \in 1..(Len(S) - 1) : <<S[i], S[i + 1]>> \in StatusEdges

\* C2 (as stated): a second start_download of an id never creates a second
\* executor, whatever happened to the first one in between.
C2_SecondStartNeverCreates ==
    \A t \in TaskIds : Cardinality({w \in Workers : wk[w].task_id = t}) <= 1

\* C2 (amended): while an id has an entry in _tasks, start_download creates no
\* executor for it, leaves the entry alone and returns False; an executor is
\* created only for an id without an entry, which then has that one entry and
\* returns True.
C2_ActiveIdRefused ==
    [][\A t \in TaskIds :
          /\ \A w \in Workers :
                (wk[w].pc = "none" /\ wk'[w].pc # "none" /\ wk'[w].task_id = t)
                => (tasks[t] = 0 /\ tasks'[t] = w)
          /\ (startRet'[t] = "false" /\ startRet[t] # "false")
                => (tasks[t] # 0 /\ tasks' = tasks /\ wk' = wk /\ out' = out)
          /\ (startRet'[t] = "true" /\ startRet[t] # "true")
                => mainpc = [op |-> "adding", id |-> t]]_vars

\* a duplicate start was refused while a later start of the same id, after the
\* entry was removed, had created a second executor
C2_Witness ==
    \E t \in TaskIds :
       /\ startRet[t] = "false"
       /\ tasks[t] = 2
       /\ wk[1].task_id = t /\ wk[2].task_id = t

\* C3: task_finished(id) is emitted once and is the last event of the task: no
\* task_progress, task_status_changed, task_error or second task_finished of
\* that id follows it, and a worker that has exited has emitted it.
C3_FinishedOnceAndLast ==
    \A t \in TaskIds :
       LET s == SelectSeq(OutOf(t), LAMBDA e : e.sig \in
                   {"task_progress", "task_status_changed", "task_error", "task_finished"})
       IN  /\ \A i \in 1..Len(s) : s[i].sig = "task_finished" => i = Len(s)
           /\ \A w \in Workers :
                 (wk[w].task_id = t /\ wk[w].pc = "dead" /\ ~Pending(mainq, w)) =>
                    \E i \in 1..Len(s) : s[i].sig = "task_finished"

RunOf(t) ==
    SelectSeq(OutOf(t), LAMBDA e : e.sig \in
       {"task_added", "task_status_changed", "task_user_info_changed",
        "task_progress", "task_finished"})

C6_OrderPreserved ==
    [][\A w \in Workers :
          (/\ Len(out') = Len(out) + 1
           /\ out'[Len(out')].w = w
           /\ Pending(mainq, w))
          => /\ mainq' = Tail(mainq)
             /\ out'[Len(out')] = ReEmit(Head(mainq))]_vars

\* C7: within one task, successive task_progress events carry a
\* non-decreasing current value, the final 100 included.
C7_MonotoneProgress ==
    \A t \in TaskIds :
       LET p == ProgressOf(t) IN
       \A i \in 1..(Len(p) - 1) : p[i].cur <= p[i + 1].cur

\* a run with max_counts whose batches went past it, one of them empty, and
\* whose progress events all arrived, the final one included
C7_Witness ==
    \E w \in Workers :
       LET p == ProgressOf(wk[w].task_id) IN
       /\ wk[w].max_counts > 0 /\ wk[w].video_count > wk[w].max_counts
       /\ wk[w].pc = "dead" /\ ~Pending(mainq, w)
       /\ Len(p) = 4
       /\ \E i \in 1..3 : p[i].cur < 100 /\ p[i + 1].cur = p[i].cur
       /\ p[4].cur = 100

\* C8: after Pause on a downloading task the executor finishes at most the
\* batch in flight: while the pause lasts no second batch is materialized.
C8_PauseStopsBatches ==
    \A w \in Workers : (wk[w].is_paused /\ wk[w].pdl) => wk[w].pmat <= 1

\* C9: Pause then Resume on a downloading task returns it to Downloading and
\* the batches processed after Resume are the ones not materialized before
\* Pause: at the Resume at most the batch in flight was materialized since.
C9_ResumeContinues ==
    [][\A w \in Workers :
          (/\ wk[w].is_paused /\ wk[w].pdl
           /\ ~wk'[w].is_paused /\ wk'[w].stopped = wk[w].stopped)
          => /\ wk[w].pmat <= 1
             /\ out'[Len(out')].sig = "task_status_changed"
             /\ out'[Len(out')].st = "downloading"]_vars

\* C10: once Cancel was called on a task, no task_error and no
\* task_status_changed(failed) is emitted for it, even if the call in flight
\* raises after the cancellation flag was set.
C10_CancelNeverFails ==
    [][\A w \in Workers :
          wk[w].stopped =>
             ~(/\ Len(mainq') > Len(mainq)
               /\ mainq'[Len(mainq')].w = w
               /\ mainq'[Len(mainq')].st = "failed")]_vars

\* C11: a card cancelled while it showed pending, for a task that was never
\* started, is reported cancelled, and no task_status_changed(downloading)
\* is ever emitted for that task.
C11_PendingCancelReportsCancelled ==
    \A t \in TaskIds :
       (mw.cancelledIn[t] = "pending" /\ \A w \in Workers : wk[w].task_id # t)
       => /\ Has(OutOf(t), "task_status_changed", "cancelled")
          /\ ~Has(OutOf(t), "task_status_changed", "downloading")

\* C12: after Cancel the executor observes the cancellation flag at its next
\* batch boundary: once stop() was called on a worker, its batch loop takes
\* no further batch in hand.
C12_CancelObservedAtBoundary ==
    [][\A w \in Workers :
          wk[w].stopped => ~(wk[w].pc = "loop" /\ wk'[w].pc = "mat")]_vars

\* the events that came from other workers than w, in a queue or stream
NotBy(q, w) == SelectSeq(q, LAMBDA e : e.w # w)
AllArrived(t) ==
    /\ WorkerOf(t) # 0
    /\ wk[WorkerOf(t)].pc = "dead"
    /\ ~Pending(mainq, WorkerOf(t))
Last(s) == s[Len(s)]

\* C13: of two tasks with different ids that run concurrently, the one whose
\* backend always raises ends Failed and the other ends Completed; every
\* event carries the id of the task whose worker produced it; and the step in
\* which the failure is reported changes neither the other worker's fields
\* (progress count, is_running, is_paused) nor the events of the other task.
C13_FailureIsolated ==
    /\ [](\A i \in 1..Len(out) :
             out[i].w # 0 => out[i].id = wk[out[i].w].task_id)
    /\ []((AllArrived(FailingId) /\ AllArrived(OtherId))
            => /\ Last(StatusesOf(FailingId)) = "failed"
               /\ Last(StatusesOf(OtherId)) = "completed"
               /\ ~Has(OutOf(OtherId), "task_error", "")
               /\ ~Has(OutOf(OtherId), "task_status_changed", "failed")
               /\ Last(ProgressOf(OtherId)).cur = 100)
    /\ [][\A w \in Workers :
             (/\ wk[w].task_id = FailingId
              /\ Len(mainq') > Len(mainq)
              /\ mainq'[Len(mainq')].st = "failed")
             => /\ \A v \in Workers \ {w} : wk'[v] = wk[v]
                /\ NotBy(mainq', w) = NotBy(mainq, w)
                /\ out' = out]_vars

\* both tasks ran to their end, and the failure of the one was reported
\* between the downloading and the completed of the other, which had
\* materialized a batch
C13_Witness ==
    /\ AllArrived(FailingId) /\ AllArrived(OtherId)
    /\ wk[WorkerOf(OtherId)].video_count > 0
    /\ \E i, j, k \in 1..Len(out) :
          /\ i < j /\ j < k
          /\ out[i].id = OtherId /\ out[i].st = "downloading"
          /\ out[j].id = FailingId /\ out[j].sig = "task_error"
          /\ out[k].id = OtherId /\ out[k].st = "completed"

\* C14: the configuration captured for a task is a snapshot: whatever
\* ConfigManager.update / set / reset did since, every section the task reads
\* from its config holds the value it held at capture time.
C14_ConfigIsSnapshot ==
    \A sec \in Sections :
       cm.read[sec] # "none" => cm.read[sec] = cm.captured[sec]

\* the status names of the task state machine for the values of TaskStatus
MachineName(status) == IF status = "error" THEN "failed" ELSE status

\* C15: update_task_status with a status that is not a legal successor of the
\* task's current status leaves the task's status, started_at and
\* finished_at unchanged.
C15_IllegalSuccessorRejected ==
    [][\A t \in TaskIds, status \in TaskStatus :
          (/\ tm.tasks[t] # NoTask
           /\ <<MachineName(tm.tasks[t].status), MachineName(status)>> \notin StatusEdges
           /\ update_task_status(t, status))
          => /\ tm'.tasks[t].status = tm.tasks[t].status
             /\ tm'.tasks[t].started_at = tm.tasks[t].started_at
             /\ tm'.tasks[t].finished_at = tm.tasks[t].finished_at]_vars

\* C16: add_task with a task_id that has an entry leaves the entry unchanged:
\* platform, mode, url, status, progress and timestamps keep their values.
C16_DuplicateAddRefused ==
    [][\A t \in TaskIds, a \in AddInputs :
          (tm.tasks[t] # NoTask /\ add_task(t, a[1], a[2], a[3]))
          => tm'.tasks[t] = tm.tasks[t]]_vars

\* C17: a parse run emits finished exactly once on every path: it never emits
\* twice, and a run that has ended has emitted.
C17_FinishedExactlyOnce ==
    \A p \in ParseWorkers :
       /\ Len(pw[p].emitted) <= 1
       /\ pw[p].pc = "done" => Len(pw[p].emitted) = 1

\* two runs have ended: one through an except branch with an error text, one
\* through the regular emit after its user-id lookup had failed
C17_Witness ==
    \E p, q \in ParseWorkers :
       /\ pw[p].pc = "done" /\ pw[q].pc = "done"
       /\ pw[p].emitted[1].error # ""
       /\ "user_id" \in pw[q].failed /\ pw[q].emitted[1].error = ""

\* C18: every failure inside a parse run (URL extraction, user-id resolution,
\* database lookup) is reported with a non-empty error, with parsed_url the
\* extracted URL or else the raw input, and with empty nickname and user_id;
\* an empty error means that nothing failed.
C18_FailuresReported ==
    \A p \in ParseWorkers :
       pw[p].pc = "done" =>
          LET e == pw[p].emitted[1] IN
          /\ pw[p].failed \cap {"extract", "user_id", "db"} # {} =>
                /\ e.error # ""
                /\ e.parsed_url \in {ExtractedUrl, RawUrl}
                /\ "extract" \in pw[p].failed => e.parsed_url = RawUrl
                /\ e.nickname = "" /\ e.user_id = ""
          /\ e.error = "" => pw[p].failed \cap {"extract", "user_id", "db"} = {}

C20_TokenRederived ==
    [][\A address \in Proxies, ok \in BOOLEAN :
          (/\ px.loaded
           /\ px.token_proxies # address
           /\ setup_tiktok_proxy_before_any_import(address, ok))
          => /\ px'.tiktok_conf = address
             /\ px'.token_proxies = address
             /\ px'.device_proxies = address
             /\ px'.mstoken = address
             /\ px'.cookie = address]_vars

\* C21: a failure while the proxy override is applied (before-import path,
\* after-import path, token re-derivation) never fails the task: the step in
\* which it happens leaves _run_download on its way to _prepare_config, and
\* no task is failed by its proxy setup.
C21_InjectionFailureNotFatal ==
    /\ [](px.task # "failed")
    /\ [][(px'.ntasks > px.ntasks /\ px'.inject = "failed")
            => px'.task = "prepare"]_vars

\* a task whose proxy setup failed has entered the platform routine and made a
\* backend call
C21_Witness ==
    /\ px.inject = "failed"
    /\ px.task = "routine"
    /\ px.seen_task = px.ntasks

\* the task has a worker that is downloading / that is paused
IsDownloading(t) ==
    IsActive(t) /\ wk[tasks[t]].is_running /\ ~wk[tasks[t]].is_paused
IsPaused(t) == IsActive(t) /\ wk[tasks[t]].is_paused

\* C22: pause_download, resume_download and cancel_download are no-ops when
\* the operation is not legal: Pause on a task that is not downloading,
\* Resume on a task that is not paused and Cancel on an id without entry
\* change no worker and emit nothing.
C22_IllegalCommandsAreNoOps ==
    [][\A t \in TaskIds :
          /\ (pause_download(t) /\ ~IsDownloading(t)) => (wk' = wk /\ out' = out)
          /\ (resume_download(t) /\ ~IsPaused(t)) => (wk' = wk /\ out' = out)
          /\ (cancel_download(t) /\ ~IsActive(t)) => (wk' = wk /\ out' = out)]_vars

\* DEFAULT_DOWNLOAD_CONFIG["max_retries"]
max_retries == 3

\* the errors a worker has reported so far, delivered or still queued
ErrorsBy(w) ==
    Len(SelectSeq(mainq \o out, LAMBDA e : e.w = w /\ e.sig \in {"error", "task_error"}))

\* C23: when a backend call raises, the executor retries it up to max_retries
\* times before giving up: the step in which a call in flight raises reports
\* no failure while fewer than max_retries raises came before it.
C23_RetriedBeforeFailed ==
    [][\A w \in Workers :
          (/\ wk[w].pc \in {"handler", "resolve", "loop", "mat"}
           /\ Raise(w)
           /\ ErrorsBy(w) < max_retries)
          => ~\E i \in 1..Len(mainq') :
                mainq'[i].w = w /\ mainq'[i].st = "failed"]_vars

\* C24: a task started with a mode that is not valid for its platform, or with
\* an unsupported platform, never reaches a backend content call and is never
\* reported completed; when its run is over it has reported one task_error
\* and the failed status, whatever URL type was detected.
C24_InvalidModeFails ==
    \A w \in Workers :
       (wk[w].pc # "none" /\ wk[w].mode \notin PlatformModes(wk[w].platform))
       => /\ wk[w].pc \notin {"handler", "resolve", "loop", "mat", "after", "emitc"}
          /\ ~Has(OutBy(w), "task_status_changed", "completed")
          /\ (wk[w].pc = "dead" /\ ~Pending(mainq, w))
                => /\ Has(OutBy(w), "task_status_changed", "failed")
                   /\ Len(SelectSeq(OutBy(w), LAMBDA e : e.sig = "task_error")) = 1

\* C25: a failure to resolve the identity of the URL is not fatal: the step in
\* which the executor resolves the identity, whatever comes back, reports no
\* failure and leaves the run in the pipeline.
C25_ResolutionFailureNotFatal ==
    [][\A w \in Workers :
          Resolve(w)
          => /\ wk'[w].pc = "loop"
             /\ ~\E i \in 1..Len(mainq') :
                   mainq'[i].w = w /\ mainq'[i].st = "failed"]_vars

\* C26: whenever task_status_changed(completed) is emitted for a task, the
\* last task_progress event emitted before it for that task has current = 100
\* (of total 100).
C26_CompletedAtFullProgress ==
    \A j \in 1..Len(out) :
       (out[j].sig = "task_status_changed" /\ out[j].st = "completed")
       => \E i \in 1..(j - 1) :
             /\ out[i].id = out[j].id /\ out[i].sig = "task_progress"
             /\ out[i].cur = 100
             /\ \A k \in (i + 1)..(j - 1) :
                   ~(out[k].id = out[j].id /\ out[k].sig = "task_progress")

\* a paginated run whose enumeration ended without any item was reported
\* completed
C26_Witness ==
    \E w \in Workers :
       /\ Has(OutBy(w), "task_user_info_changed", "")
       /\ wk[w].video_count = 0
       /\ Has(OutBy(w), "task_status_changed", "completed")

\* C27: set_task_error leaves the recorded progress of the task unchanged:
\* current and total after the call are what they were before it.
C27_ErrorKeepsProgress ==
    [][\A t \in TaskIds :
          (tm.tasks[t] # NoTask /\ set_task_error(t, "boom"))
          => /\ tm'.tasks[t].current = tm.tasks[t].current
             /\ tm'.tasks[t].total = tm.tasks[t].total]_vars

\* a task that had reached 50 of 100 was set to error
C27_Witness ==
    \E t \in TaskIds :
       /\ tm.tasks[t] # NoTask
       /\ tm.tasks[t].status = "error" /\ tm.tasks[t].error_message = "boom"
       /\ tm.tasks[t].current = 50 /\ tm.tasks[t].total = 100

\* C28: in every reachable state of the registry a task has a non-empty
\* error_message only if its status is ERROR.
C28_ErrorMessageOnlyOnError ==
    \A t \in TaskIds :
       (tm.tasks[t] # NoTask /\ tm.tasks[t].error_message # "")
       => tm.tasks[t].status = "error"

\* C30: get_statistics counts the tasks of every status, so that the
\* per-status counts it returns add up to the total it returns, for every
\* content of the registry.
C30_StatisticsAddUp ==
    LET st == get_statistics IN
    st.downloading + st.completed + st.error + st.pending + st.paused = st.total

\* C29: once a card's nickname, user id or URL is non-empty, no later event of
\* its task replaces it with an empty value
C29_IdentityNeverCleared ==
    [][\A p \in ParseWorkers :
          /\ tc[p].nickname # "" => tc'[p].nickname # ""
          /\ tc[p].user_id # "" => tc'[p].user_id # ""
          /\ tc[p].url # "" => tc'[p].url # ""]_vars

\* C31: while a worker thread is inside _on_finished, between its reads of
\* DownloadController._tasks, no other thread writes the map
C31_TasksSerialized ==
    [][(\E w \in Workers : wk[w].pc \in {"onfin_in", "onfin_out"}) => tasks' = tasks]_vars

\* C32: the history never holds two records of the same platform and mode
\* with the same non-empty user id, nor two with an empty user id and the
\* same URL
C32_OneRecordPerKey ==
    \A i, j \in 1..Len(hm.records) :
       (/\ i # j
        /\ hm.records[i].platform = hm.records[j].platform
        /\ hm.records[i].mode = hm.records[j].mode)
       => /\ ~(hm.records[i].user_id # "" /\ hm.records[i].user_id = hm.records[j].user_id)
          /\ ~(/\ hm.records[i].user_id = "" /\ hm.records[j].user_id = ""
               /\ hm.records[i].url = hm.records[j].url)

\* C33: "start all" starts an executor for every card that shows pending,
\* however many there are: after the step every such id is in _tasks and
\* start_download has returned True for each id it did not hold already
C33_StartAllUnbounded ==
    [][on_start_all_downloads =>
         \A i \in PendingCards :
            /\ tasks'[CardOrder[i]] # 0
            /\ ~IsActive(CardOrder[i]) => startRet'[CardOrder[i]] = "true"]_vars

\* more executors than max_tasks are inside a backend call at once
C33_Witness ==
    Cardinality({ w \in Workers : wk[w].pc = "handler" }) > max_tasks

\* C34: clear_completed removes exactly the tasks whose status is completed
\* and leaves the others as they are; a task leaves the registry only in a
\* step of remove_task, clear_completed or clear_all, and no step of an
\* executor or of the controller changes the registry
C34_RemovedOnlyByCaller ==
    [][/\ clear_completed =>
            \A t \in DOMAIN tm.tasks :
               tm'.tasks[t] = IF tm.tasks[t] # NoTask /\ tm.tasks[t].status = "completed"
                                 THEN NoTask ELSE tm.tasks[t]
       /\ (\E t \in DOMAIN tm.tasks : tm.tasks[t] # NoTask /\ tm'.tasks[t] = NoTask)
            => \/ \E t \in DOMAIN tm.tasks : remove_task(t)
               \/ clear_completed
               \/ clear_all
       /\ (wk' # wk \/ mainq' # mainq \/ out' # out \/ tasks' # tasks) => tm' = tm]_vars

\* the executor has come to its end and its thread is gone, one task has
\* left the registry, and the other one, not completed, is there with its
\* progress
C34_Witness ==
    /\ wk[1].pc = "dead" /\ mainq = <<>>
    /\ tm.tasks["t1"] = NoTask
    /\ tm.tasks["t2"] # NoTask
    /\ tm.tasks["t2"].status = "pending" /\ tm.tasks["t2"].current = 50
    /\ tm.tasks["t2"].created_at = 2

\* a worker whose download() has begun and has not returned
Live(w) == wk[w].pc \in {"run", "handler", "resolve", "loop", "mat", "after", "emitc", "fin"}

\* C35: no two workers of the same task id are inside download() at once
C35_OneLiveExecutorPerId ==
    \A v, w \in Workers :
       (v # w /\ Live(v) /\ Live(w)) => wk[v].task_id # wk[w].task_id

\* C36: once task_removed of a cancel has been delivered for an id, no
\* task_progress, task_status_changed, task_error or task_finished of that id
\* is delivered
C36_SilentAfterCancel ==
    \A i, j \in 1..Len(out) :
       (i < j /\ out[i].sig = "task_removed" /\ out[j].id = out[i].id)
       => out[j].sig \notin {"task_progress", "task_status_changed", "task_error",
                             "task_finished"}

\* C37: a worker whose stop() has been called does not emit
\* status_changed "completed" afterwards
C37_NoCompletedAfterStop ==
    [][\A w \in Workers : wk[w].stopped => ~EmitCompleted(w)]_vars

\* the progress values a worker has emitted so far, delivered or not
EmittedProgress(w) ==
    SelectSeq(out \o mainq, LAMBDA e : e.w = w /\ e.sig \in {"progress", "task_progress"})

\* C38: every progress value lies between 0 and the total, 100; without
\* max_counts the values stay at or below 95 while the enumeration goes on,
\* and 100 comes once, from the emit after the loop
C38_ProgressInRange ==
    \A w \in Workers :
       LET ps == EmittedProgress(w) IN
       /\ \A i \in 1..Len(ps) : 0 <= ps[i].cur /\ ps[i].cur <= 100
       /\ wk[w].max_counts = 0 =>
            /\ wk[w].pc \in {"resolve", "loop", "mat", "after"} =>
                  \A i \in 1..Len(ps) : ps[i].cur <= 95
            /\ \A i \in 1..Len(ps) : ps[i].cur > 95 => (ps[i].cur = 100 /\ i = Len(ps))

\* a run without max_counts whose loop reached the cap of 95 and that has
\* ended with 100
C38_Witness ==
    \E w \in Workers :
       LET ps == EmittedProgress(w) IN
       /\ wk[w].max_counts = 0 /\ wk[w].video_count > 95
       /\ Len(ps) >= 2 /\ ps[Len(ps) - 1].cur = 95 /\ ps[Len(ps)].cur = 100

\* C39: a backend call of a task whose configuration has no proxy enabled
\* goes through the proxies of the backend's own configuration file, whatever
\* proxy earlier tasks have installed
C39_ProxyOfOwnSnapshot ==
    [][(backend_call /\ px.inject = "none") => px'.seen = FileProxies]_vars

\* C40: update_task_status, update_task_progress, set_task_error and
\* remove_task with an id that is not in the registry can be called (nothing
\* is raised) and leave the registry as it is, and get_task returns None for
\* the id
C40_UnknownIdIsNoOp ==
    /\ [](\A t \in DOMAIN tm.tasks : tm.tasks[t] = NoTask =>
             /\ get_task(t) = None
             /\ \A status \in TaskStatus : ENABLED update_task_status(t, status)
             /\ ENABLED update_task_progress(t, 50, 100)
             /\ ENABLED set_task_error(t, "boom")
             /\ ENABLED remove_task(t))
    /\ [][\A t \in DOMAIN tm.tasks : tm.tasks[t] = NoTask =>
            /\ \A status \in TaskStatus : update_task_status(t, status) => tm' = tm
            /\ update_task_progress(t, 50, 100) => tm' = tm
            /\ set_task_error(t, "boom") => tm' = tm
            /\ remove_task(t) => tm' = tm]_vars

\* one id is not in the registry while the other has a task with progress
\* and an error
C40_Witness ==
    /\ tm.tasks["t1"] = NoTask
    /\ tm.tasks["t2"] # NoTask
    /\ tm.tasks["t2"].status = "error" /\ tm.tasks["t2"].current = 50
    /\ get_task("t1") = None /\ get_task("t2") = tm.tasks["t2"]

====
